---- MODULE Spec2Model ----
(***************************************************************************)
(* Model of module/accel/dsa/accel_dsa.c (SPDK DSA accel module).          *)
(*                                                                         *)
(* Spec    : the per-channel submission / queueing / completion protocol   *)
(*           (dsa_submit_task, dsa_submit_queued_tasks, idxd_poll,         *)
(*           dsa_done, _process_single_task, idxd_submit_dualcast).        *)
(*                                                                         *)
(* Every handler is one action.  A handler is evaluated by threading a     *)
(* machine record m through operators that follow the C functions:         *)
(*   m.c      the channel the handler was called on                        *)
(*   m.chans  the idxd_io_channel structures                               *)
(*   m.hw     per channel, the operations the driver accepted and has not  *)
(*            completed yet                                                *)
(*   m.tasks  the task table                                               *)
(*   m.log    what the handler did, in order                               *)
(*   m.rc     the return code of the last call                             *)
(* The record m.log holds one event per step of interest:                  *)
(*   try     _process_single_task entered for task t                       *)
(*   drv     a driver submission call for t answered rc                    *)
(*   enq     t appended to the FIFO (q is the FIFO with t in it)           *)
(*   done    dsa_done entered for t with status rc                         *)
(*   verify  spdk_dif_verify run for t                                     *)
(*   cb      the continuation of t invoked with status rc                  *)
(*   drain   dsa_submit_queued_tasks entered                               *)
(* each with the channel's counter (out) and FIFO (q) at that moment and   *)
(* whether the driver still holds t (inhw).                                *)
(*                                                                         *)
(* SpecDual: the same protocol with callers that submit copies and         *)
(*           dual-casts of one buffer shape, drawn from every shape.       *)
(*                                                                         *)
(* SpecSel : the device registry as accel_dsa_init leaves it (attach_cb    *)
(*           per probed device) and channel creation, one dsa_create_cb    *)
(*           (with its idxd_select_device) after the other.                *)
(*                                                                         *)
(* SpecLife: the module from before accel_dsa_enable_probe to after        *)
(*           accel_dsa_exit: enabling, accel_dsa_init, channel creation    *)
(*           and destruction, teardown.                                    *)
(*                                                                         *)
(* SpecCap : the same life with the framework's capability queries         *)
(*           (dsa_supports_opcode) and no channels.                        *)
(*                                                                         *)
(* The driver and the callers' continuations are outside the file: where   *)
(* the code calls them, every answer they can give is a branch, so each    *)
(* operator yields the SET of machines the C function can end in.  An      *)
(* intermediate machine is bound as x \in {e}, so that it is evaluated     *)
(* once.                                                                   *)
(*                                                                         *)
(* uint32_t values are kept as the int32 with the same bit pattern, so     *)
(* 0 - 1 is -1 (0xFFFFFFFF).                                               *)
(***************************************************************************)
EXTENDS Integers, Sequences, FiniteSets, TLC

\* ---------------------------------------------------------------- constants
EIO == 5
EBUSY == 16
EINVAL == 22
ENODEV == 19
EALREADY == 114

IDXD_CHANNEL_ACTIVE == "ACTIVE"
IDXD_CHANNEL_ERROR == "ERROR"

\* ------------------------------------------------------------------- bounds
MaxTasks == 3          \* tasks submitted in one run
DualTasks == 2         \* tasks submitted in one run of SpecDual
MaxIov == 2            \* regions of one buffer descriptor
MaxLen == 2            \* length of one region

MaxDevs == 3           \* devices the probe finds
ChanCap == 2           \* channels the driver lets share one device
MaxCtx == 5            \* execution contexts that ask for a channel
LiveTasks == 2         \* tasks submitted in one run of SpecLive
LifeCtx == 2           \* execution contexts in SpecLife
MaxEnable == 3         \* calls of accel_dsa_enable_probe
NThr == 3              \* threads that create channels concurrently
MaxCalls == 3          \* channel creations in one run of SpecConc

Chans == {1}
Sockets == {0, 1}

VARIABLES
    chans,      \* [Chans -> idxd_io_channel]
    hw,         \* [Chans -> Seq(task)]  driver: accepted, not yet completed
    tasks,      \* Seq(task record): every task submitted so far
    log,        \* Seq(event): what the last handler did
    last,       \* the last handler: [op, c, t]
    load,       \* the callers of this run: [descrs, limit]
    g_dsa_devices,  \* Seq(device): the TAILQ of attached devices
    g_next_dev,     \* the selection cursor, 0 for NULL
    g_num_devices,
    idxd,       \* driver: [socket : device -> socket, channels : device -> slots held]
    reqs,       \* Seq of channel creations so far: [socket_id, dev, rc, scanned]
    sel,        \* [thread -> its idxd_select_device call: pc, socket_id, count, dev]
    g_dsa_enable,
    g_kernel_mode,
    g_dsa_initialized,
    env         \* framework and platform: [iommu, set_config, modules, io_device,
                \*                          enables, inits, fini, detached]

regvars == <<g_dsa_devices, g_next_dev, g_num_devices, idxd, reqs, sel>>
modvars == <<g_dsa_enable, g_kernel_mode, g_dsa_initialized, env>>
vars == <<chans, hw, tasks, log, last, load, g_dsa_devices, g_next_dev,
          g_num_devices, idxd, reqs, sel, g_dsa_enable, g_kernel_mode,
          g_dsa_initialized, env>>

\* ------------------------------------------------------------- task inputs
\* iovcnt of d, d2 and s, and iov_len of the first region of each
Shapes == [d : 1..MaxIov, d2 : 1..MaxIov, s : 1..MaxIov,
           dlen : 1..MaxLen, d2len : 1..MaxLen, slen : 1..MaxLen]

OneShape == [d |-> 1, d2 |-> 1, s |-> 1, dlen |-> 1, d2len |-> 1, slen |-> 1]

\* A task as the caller hands it in: the opcode and the buffer shape.
Descr(op, sh) == [op_code |-> op, shape |-> sh]

SpecDescrs ==
    { Descr("COPY", OneShape), Descr("DIF_VERIFY", OneShape),
      Descr("DUALCAST", [OneShape EXCEPT !.d2len = 2]) }

\* The task's memory once its continuation has run: handed back to the caller.
Returned == Descr("returned", OneShape)

\* What a driver submission call answers besides 0 and -EBUSY.
DrvErrors == {-EIO}

\* What the hardware reports for a completed operation.
Statuses == {0, -EIO, -EINVAL}

\* --------------------------------------------------------------- the record
InSeq(x, q) == \E i \in 1..Len(q) : q[i] = x

Event(k, t, rc, m) ==
    [k |-> k, t |-> t, rc |-> rc, op |-> m.tasks[t].op_code,
     shape |-> m.tasks[t].shape,
     out |-> m.chans[m.c].num_outstanding,
     q |-> m.chans[m.c].queued_tasks,
     inhw |-> InSeq(t, m.hw[m.c])]

Record(m, e) == [m EXCEPT !.log = Append(@, e)]

NewTask(m, d) ==
    [m EXCEPT !.tasks = Append(@,
        [op_code |-> d.op_code, shape |-> d.shape,
         chan |-> 0,        \* idxd_task->chan
         acc |-> 0,         \* times the driver accepted it
         dones |-> 0,       \* times dsa_done ran for it
         cbs |-> 0          \* times its continuation ran
        ])]

\* STAILQ_INSERT_TAIL(&chan->queued_tasks, task, link)
STAILQ_INSERT_TAIL(m, t) ==
    LET m1 == [m EXCEPT !.chans[m.c].queued_tasks = Append(@, t)]
    IN Record(m1, Event("enq", t, 0, m1))

\* STAILQ_REMOVE_HEAD(&chan->queued_tasks, link)
STAILQ_REMOVE_HEAD(m) ==
    [m EXCEPT !.chans[m.c].queued_tasks = Tail(@)]

\* STAILQ_NEXT(task, link): the entry behind task, 0 for NULL
STAILQ_NEXT(q, t) ==
    IF \E i \in 1..(Len(q) - 1) : q[i] = t
    THEN q[(CHOOSE i \in 1..(Len(q) - 1) : q[i] = t) + 1]
    ELSE 0

STAILQ_FIRST(q) == IF q = <<>> THEN 0 ELSE Head(q)

RECURSIVE dsa_submit_task(_, _)
RECURSIVE spdk_accel_task_complete(_, _, _)
RECURSIVE FailQueued(_)
RECURSIVE SubmitQueued(_, _)
RECURSIVE spdk_idxd_process_events(_)
RECURSIVE SelectLoop(_, _, _)

\* ------------------------------------------------------------------- driver
\* spdk_idxd_submit_<op>: 0 (accepted, a completion follows), -EBUSY (the
\* hardware queue is momentarily full) or another error.
spdk_idxd_submit(m, t) ==
    { LET m1 == Record([m EXCEPT !.rc = rc], Event("drv", t, rc, m))
      IN IF rc = 0
         THEN [m1 EXCEPT !.hw[m.c] = Append(@, t), !.tasks[t].acc = @ + 1]
         ELSE m1
      : rc \in {0, -EBUSY} \cup DrvErrors }

\* --------------------------------------------------------------- dispatcher
\* mutant: the secondary destination's length is not compared
idxd_submit_dualcast_NoD2Len(m, t) ==
    LET sh == m.tasks[t].shape IN
    IF sh.d # 1 \/ sh.d2 # 1 \/ sh.s # 1
    THEN {[m EXCEPT !.rc = -EINVAL]}
    ELSE IF sh.dlen # sh.slen
    THEN {[m EXCEPT !.rc = -EINVAL]}
    ELSE spdk_idxd_submit(m, t)

idxd_submit_dualcast(m, t) ==
    LET sh == m.tasks[t].shape IN
    IF sh.d # 1 \/ sh.d2 # 1 \/ sh.s # 1
    THEN {[m EXCEPT !.rc = -EINVAL]}
    ELSE IF sh.dlen # sh.slen \/ sh.dlen # sh.d2len
    THEN {[m EXCEPT !.rc = -EINVAL]}
    ELSE spdk_idxd_submit(m, t)

\* the switch of _process_single_task
DispatchOp(m0, t) ==
    LET op == m0.tasks[t].op_code IN
    CASE op = "COPY" -> spdk_idxd_submit(m0, t)
      [] op = "DUALCAST" -> idxd_submit_dualcast(m0, t)
      [] op = "COMPARE" -> spdk_idxd_submit(m0, t)
      [] op = "FILL" -> spdk_idxd_submit(m0, t)
      [] op = "CRC32C" -> spdk_idxd_submit(m0, t)
      [] op = "COPY_CRC32C" -> spdk_idxd_submit(m0, t)
      [] op = "DIF_VERIFY" -> spdk_idxd_submit(m0, t)
      [] op = "DIF_GENERATE_COPY" -> spdk_idxd_submit(m0, t)
      [] OTHER -> {[m0 EXCEPT !.rc = -EINVAL]}

\* mutant: the counter goes up for a scarce answer too
ProcessSingleTask_CountsBusy(m, t) ==
    LET m0 == Record([m EXCEPT !.tasks[t].chan = m.c], Event("try", t, 0, m))
    IN { IF r.rc = 0 \/ r.rc = -EBUSY
         THEN [r EXCEPT !.chans[m.c].num_outstanding = @ + 1]
         ELSE r : r \in DispatchOp(m0, t) }

ProcessSingleTask(m, t) ==
    UNION { { IF r.rc = 0
              THEN [r EXCEPT !.chans[m.c].num_outstanding = @ + 1]
              ELSE r : r \in DispatchOp(m0, t) }
            : m0 \in { Record([m EXCEPT !.tasks[t].chan = m.c], Event("try", t, 0, m)) } }

\* ------------------------------------------------- submission and completion

\* The framework hands the task back to the caller and runs the caller's
\* continuation, which may submit another task on the same thread's channel.
spdk_accel_task_complete(m, t, status) ==
    UNION { {m1} \cup
            IF Len(m1.tasks) < load.limit
            THEN UNION { dsa_submit_task(n, Len(n.tasks))
                         : n \in { NewTask(m1, d) : d \in load.descrs } }
            ELSE {}
            : m1 \in { [Record(m, Event("cb", t, status, m))
                          EXCEPT !.tasks[t].cbs = @ + 1,
                                 !.tasks[t].op_code = Returned.op_code,
                                 !.tasks[t].shape = Returned.shape] } }

\* mutant: a new task is dispatched although a backlog is waiting
dsa_submit_task_JumpsBacklog(m, t) ==
    IF m.chans[m.c].state = IDXD_CHANNEL_ERROR
    THEN spdk_accel_task_complete(m, t, -EINVAL)
    ELSE UNION { IF r.rc = -EBUSY
                 THEN {STAILQ_INSERT_TAIL(r, t)}
                 ELSE IF r.rc # 0
                 THEN spdk_accel_task_complete(r, t, r.rc)
                 ELSE {r}
                 : r \in ProcessSingleTask(m, t) }

\* mutant: a scarce answer fails the task like any other error
dsa_submit_task_FailsBusy(m, t) ==
    IF m.chans[m.c].state = IDXD_CHANNEL_ERROR
    THEN spdk_accel_task_complete(m, t, -EINVAL)
    ELSE IF m.chans[m.c].queued_tasks # <<>>
    THEN {STAILQ_INSERT_TAIL(m, t)}
    ELSE UNION { IF r.rc # 0
                 THEN spdk_accel_task_complete(r, t, r.rc)
                 ELSE {r}
                 : r \in ProcessSingleTask(m, t) }

\* mutant: behind a backlog the task is put at the head of the FIFO
dsa_submit_task_InsertsHead(m, t) ==
    IF m.chans[m.c].state = IDXD_CHANNEL_ERROR
    THEN spdk_accel_task_complete(m, t, -EINVAL)
    ELSE IF m.chans[m.c].queued_tasks # <<>>
    THEN LET m1 == [m EXCEPT !.chans[m.c].queued_tasks = <<t>> \o @]
         IN {Record(m1, Event("enq", t, 0, m1))}
    ELSE UNION { IF r.rc = -EBUSY
                 THEN {STAILQ_INSERT_TAIL(r, t)}
                 ELSE IF r.rc # 0
                 THEN spdk_accel_task_complete(r, t, r.rc)
                 ELSE {r}
                 : r \in ProcessSingleTask(m, t) }

dsa_submit_task(m, t) ==
    IF m.chans[m.c].state = IDXD_CHANNEL_ERROR
    THEN spdk_accel_task_complete(m, t, -EINVAL)
    ELSE IF m.chans[m.c].queued_tasks # <<>>
    THEN {STAILQ_INSERT_TAIL(m, t)}
    ELSE UNION { IF r.rc = -EBUSY
                 THEN {STAILQ_INSERT_TAIL(r, t)}
                 ELSE IF r.rc # 0
                 THEN spdk_accel_task_complete(r, t, r.rc)
                 ELSE {r}
                 : r \in ProcessSingleTask(m, t) }

\* mutant: the software verification runs for any opcode that ends in -EIO
dsa_done_VerifyAny(m, t, status) ==
    LET chan == m.tasks[t].chan
        e == [Event("done", t, status, m) EXCEPT !.out = m.chans[chan].num_outstanding]
        m1 == Record(m, e)
        m2 == IF status = -EIO
              THEN Record(m1, [e EXCEPT !.k = "verify"])
              ELSE m1
        m3 == [m2 EXCEPT !.chans[chan].num_outstanding = @ - 1,
                         !.tasks[t].dones = @ + 1]
    IN spdk_accel_task_complete(m3, t, status)

\* dsa_done: the completion handler the driver calls with the task's token
dsa_done(m, t, status) ==
    LET chan == m.tasks[t].chan
        e == [Event("done", t, status, m) EXCEPT !.out = m.chans[chan].num_outstanding]
        m1 == Record(m, e)
        \* spdk_dif_verify over the task's buffers
        m2 == IF status = -EIO
              THEN IF m1.tasks[t].op_code = "DIF_VERIFY"
                   THEN Record(m1, [e EXCEPT !.k = "verify"])
                   ELSE m1
              ELSE m1
    IN UNION { spdk_accel_task_complete(m3, t, status)
               : m3 \in { [m2 EXCEPT !.chans[chan].num_outstanding = @ - 1,
                                     !.tasks[t].dones = @ + 1] } }

\* ------------------------------------------------------------------- drain
\* while ((task = STAILQ_FIRST(&chan->queued_tasks))) { ... }
FailQueued(m) ==
    LET task == STAILQ_FIRST(m.chans[m.c].queued_tasks) IN
    IF task = 0
    THEN {m}
    ELSE UNION { FailQueued(r) :
                 r \in spdk_accel_task_complete(STAILQ_REMOVE_HEAD(m), task, -EINVAL) }

\* mutant: a scarce answer skips the entry instead of ending the walk
SubmitQueued_SkipsBusy(m, task) ==
    IF task = 0
    THEN {m}
    ELSE LET tmp == STAILQ_NEXT(m.chans[m.c].queued_tasks, task) IN
         UNION { IF r.rc = -EBUSY
                 THEN SubmitQueued(r, tmp)
                 ELSE LET r1 == STAILQ_REMOVE_HEAD(r)
                          R2 == IF r.rc # 0
                                THEN spdk_accel_task_complete(r1, task, r.rc)
                                ELSE {r1}
                      IN UNION { SubmitQueued(r2, tmp) : r2 \in R2 }
                 : r \in ProcessSingleTask(m, task) }

\* mutant: a failed entry is completed but left at the head of the FIFO
SubmitQueued_KeepsFailed(m, task) ==
    IF task = 0
    THEN {m}
    ELSE LET tmp == STAILQ_NEXT(m.chans[m.c].queued_tasks, task) IN
         UNION { IF r.rc = -EBUSY
                 THEN {r}
                 ELSE LET R2 == IF r.rc # 0
                                THEN spdk_accel_task_complete(r, task, r.rc)
                                ELSE {STAILQ_REMOVE_HEAD(r)}
                      IN UNION { SubmitQueued(r2, tmp) : r2 \in R2 }
                 : r \in ProcessSingleTask(m, task) }

\* mutant: the walk ends after an entry that failed
SubmitQueued_StopsOnError(m, task) ==
    IF task = 0
    THEN {m}
    ELSE LET tmp == STAILQ_NEXT(m.chans[m.c].queued_tasks, task) IN
         UNION { IF r.rc = -EBUSY
                 THEN {r}
                 ELSE LET r1 == STAILQ_REMOVE_HEAD(r)
                      IN IF r.rc # 0
                         THEN spdk_accel_task_complete(r1, task, r.rc)
                         ELSE SubmitQueued(r1, tmp)
                 : r \in ProcessSingleTask(m, task) }

\* STAILQ_FOREACH_SAFE(task, &chan->queued_tasks, link, tmp) { ... }
SubmitQueued(m, task) ==
    IF task = 0
    THEN {m}
    ELSE LET tmp == STAILQ_NEXT(m.chans[m.c].queued_tasks, task) IN
         UNION { IF r.rc = -EBUSY
                 THEN {r}
                 ELSE LET r1 == STAILQ_REMOVE_HEAD(r)
                          R2 == IF r.rc # 0
                                THEN spdk_accel_task_complete(r1, task, r.rc)
                                ELSE {r1}
                      IN UNION { SubmitQueued(r2, tmp) : r2 \in R2 }
                 : r \in ProcessSingleTask(m, task) }

\* mutant: the drain does not look at the channel state
dsa_submit_queued_tasks_NoErrorCheck(m) ==
    LET m0 == Record(m, [k |-> "drain", t |-> 0, rc |-> 0, op |-> "",
                         shape |-> OneShape,
                         out |-> m.chans[m.c].num_outstanding,
                         q |-> m.chans[m.c].queued_tasks, inhw |-> FALSE])
    IN SubmitQueued(m0, STAILQ_FIRST(m0.chans[m0.c].queued_tasks))

dsa_submit_queued_tasks(m) ==
    UNION { IF m0.chans[m0.c].state = IDXD_CHANNEL_ERROR
            THEN FailQueued(m0)
            ELSE SubmitQueued(m0, STAILQ_FIRST(m0.chans[m0.c].queued_tasks))
            : m0 \in { Record(m, [k |-> "drain", t |-> 0, rc |-> 0, op |-> "",
                                  shape |-> OneShape,
                                  out |-> m.chans[m.c].num_outstanding,
                                  q |-> m.chans[m.c].queued_tasks, inhw |-> FALSE]) } }

\* -------------------------------------------------------------------- poll
\* The driver reports the operations that have completed, oldest first, and
\* calls the completion handler for each with the status the hardware gave.
spdk_idxd_process_events(m) ==
    {m} \cup
    IF m.hw[m.c] = <<>>
    THEN {}
    ELSE LET t == Head(m.hw[m.c])
             m1 == [m EXCEPT !.hw[m.c] = Tail(@)]
         IN UNION { UNION { spdk_idxd_process_events(r) : r \in dsa_done(m1, t, st) }
                    : st \in Statuses }

\* mutant: the backlog is retried only after a completion was processed
idxd_poll_DrainsOnCompletion(m) ==
    UNION { IF /\ r.chans[r.c].queued_tasks # <<>>
               /\ \E i \in 1..Len(r.log) : r.log[i].k = "done"
            THEN dsa_submit_queued_tasks(r)
            ELSE {r}
            : r \in spdk_idxd_process_events(m) }

idxd_poll(m) ==
    UNION { IF r.chans[r.c].queued_tasks # <<>>
            THEN dsa_submit_queued_tasks(r)
            ELSE {r}
            : r \in spdk_idxd_process_events(m) }

\* --------------------------------------------------------- device registry
\* attach_cb: one more probed device at the tail of the list, or nothing when
\* its record cannot be allocated
attach_cb(R, idxd_dev) ==
    { R,
      [R EXCEPT !.next = IF @ = 0 THEN idxd_dev ELSE @,
                !.devices = Append(@, idxd_dev),
                !.num = @ + 1] }

RECURSIVE spdk_idxd_probe(_, _, _)
\* the driver calls attach_cb for the devices d..n it finds
spdk_idxd_probe(R, d, n) ==
    IF d > n THEN {R}
    ELSE UNION { spdk_idxd_probe(R1, d + 1, n) : R1 \in attach_cb(R, d) }

TAILQ_FIRST(devs) == IF devs = <<>> THEN 0 ELSE Head(devs)

\* TAILQ_NEXT(dev, tailq), 0 for NULL
TAILQ_NEXT(devs, dev) ==
    IF \E i \in 1..(Len(devs) - 1) : devs[i] = dev
    THEN devs[(CHOOSE i \in 1..(Len(devs) - 1) : devs[i] = dev) + 1]
    ELSE 0

\* spdk_idxd_get_channel: a slot of the device, none (FALSE) at the cap
spdk_idxd_get_channel(channels, dev) == channels[dev] < ChanCap

\* the zeroed context buffer the framework hands to dsa_create_cb
ZeroedChannel ==
    [chan |-> 0, dev |-> 0, state |-> IDXD_CHANNEL_ACTIVE, poller |-> FALSE,
     num_outstanding |-> 0, queued_tasks |-> <<>>]

\* mutant: the locality domain of the device is not compared
SelectLoop_AnySocket(S, socket_id, count) ==
    LET n1 == TAILQ_NEXT(g_dsa_devices, S.next)
        dev == IF n1 = 0 THEN TAILQ_FIRST(g_dsa_devices) ELSE n1
        S1 == [S EXCEPT !.next = dev, !.scanned = Append(@, dev)]
    IN IF spdk_idxd_get_channel(S1.channels, dev)
       THEN [S1 EXCEPT !.channels[dev] = @ + 1, !.chan = dev, !.dev = dev]
       ELSE IF count + 1 < g_num_devices
            THEN SelectLoop(S1, socket_id, count + 1)
            ELSE [S1 EXCEPT !.chan = 0, !.dev = 0]

\* mutant: the scan gives up one device early
SelectLoop_OneShort(S, socket_id, count) ==
    LET n1 == TAILQ_NEXT(g_dsa_devices, S.next)
        dev == IF n1 = 0 THEN TAILQ_FIRST(g_dsa_devices) ELSE n1
        S1 == [S EXCEPT !.next = dev, !.scanned = Append(@, dev)]
        again(S2) == IF count + 2 < g_num_devices
                     THEN SelectLoop(S2, socket_id, count + 1)
                     ELSE [S2 EXCEPT !.dev = 0]
    IN IF socket_id # idxd.socket[dev]
       THEN again(S1)
       ELSE IF spdk_idxd_get_channel(S1.channels, dev)
            THEN [S1 EXCEPT !.channels[dev] = @ + 1, !.chan = dev, !.dev = dev]
            ELSE again([S1 EXCEPT !.chan = 0])

\* the do ... while (++count < g_num_devices) loop of idxd_select_device, on
\* S = [next: g_next_dev, channels: the driver's slot counts, chan: chan->chan,
\*      dev: the result, scanned: the devices the cursor went over]
SelectLoop(S, socket_id, count) ==
    LET n1 == TAILQ_NEXT(g_dsa_devices, S.next)
        dev == IF n1 = 0 THEN TAILQ_FIRST(g_dsa_devices) ELSE n1
        S1 == [S EXCEPT !.next = dev, !.scanned = Append(@, dev)]
        again(S2) == IF count + 1 < g_num_devices
                     THEN SelectLoop(S2, socket_id, count + 1)
                     ELSE [S2 EXCEPT !.dev = 0]
    IN IF socket_id # idxd.socket[dev]
       THEN again(S1)
       ELSE IF spdk_idxd_get_channel(S1.channels, dev)
            THEN [S1 EXCEPT !.channels[dev] = @ + 1, !.chan = dev, !.dev = dev]
            ELSE again([S1 EXCEPT !.chan = 0])

idxd_select_device(chan, socket_id) ==
    SelectLoop([next |-> g_next_dev, channels |-> idxd.channels, chan |-> chan.chan,
                dev |-> 0, scanned |-> <<>>], socket_id, 0)

\* what dsa_create_cb writes once a device is selected
dsa_create_cb_fields(chan, handle, dsa) ==
    [chan EXCEPT !.chan = handle, !.dev = dsa, !.poller = TRUE,
                 !.queued_tasks = <<>>, !.num_outstanding = 0,
                 !.state = IDXD_CHANNEL_ACTIVE]

\* dsa_create_cb on the context buffer ctx, from a core of socket socket_id
dsa_create_cb(ctx, socket_id) ==
    LET S == idxd_select_device(chans[ctx], socket_id) IN
    /\ g_next_dev' = S.next
    /\ idxd' = [idxd EXCEPT !.channels = S.channels]
    /\ IF S.dev = 0
       THEN /\ chans' = [chans EXCEPT ![ctx].chan = S.chan]
            /\ reqs' = Append(reqs, [socket_id |-> socket_id, dev |-> 0,
                                     rc |-> -EINVAL, scanned |-> S.scanned])
       ELSE /\ chans' = [chans EXCEPT ![ctx] = dsa_create_cb_fields(@, S.chan, S.dev)]
            /\ reqs' = Append(reqs, [socket_id |-> socket_id, dev |-> S.dev,
                                     rc |-> 0, scanned |-> S.scanned])
    /\ UNCHANGED <<g_dsa_devices, g_num_devices>>

\* ---------------------------------------------------------------- module
Opcodes ==
    { "COPY", "FILL", "DUALCAST", "COMPARE", "CRC32C", "COPY_CRC32C",
      "COMPRESS", "DECOMPRESS", "ENCRYPT", "DECRYPT", "XOR",
      "DIF_VERIFY", "DIF_GENERATE", "DIF_GENERATE_COPY" }

\* what spdk_idxd_set_config answers when it refuses the mode
ConfigErrors == {-EINVAL}

\* mutant: the DIF opcodes are reported whatever the IOMMU state
dsa_supports_opcode_NoIommu(opc) ==
    IF ~g_dsa_initialized
    THEN FALSE
    ELSE CASE opc \in {"COPY", "FILL", "DUALCAST", "COMPARE", "CRC32C", "COPY_CRC32C"} -> TRUE
           [] opc \in {"DIF_VERIFY", "DIF_GENERATE_COPY"} -> TRUE
           [] OTHER -> FALSE

\* dsa_supports_opcode; before initialization the release build answers false
dsa_supports_opcode(opc) ==
    IF ~g_dsa_initialized
    THEN FALSE
    ELSE CASE opc \in {"COPY", "FILL", "DUALCAST", "COMPARE", "CRC32C", "COPY_CRC32C"} -> TRUE
           [] opc \in {"DIF_VERIFY", "DIF_GENERATE_COPY"} -> env.iommu
           [] OTHER -> FALSE

\* mutant: the enabled flag is not looked at
accel_dsa_enable_probe_NoCheck(kernel_mode) ==
    \E rc \in {0} \cup ConfigErrors :
        /\ last' = [op |-> "enable", c |-> 0, t |-> 0, arg |-> kernel_mode, rc |-> rc]
        /\ IF rc # 0
           THEN /\ env' = [env EXCEPT !.enables = @ + 1,
                                      !.set_config = Append(@, kernel_mode)]
                /\ UNCHANGED <<g_dsa_enable, g_kernel_mode>>
           ELSE /\ env' = [env EXCEPT !.enables = @ + 1,
                                      !.set_config = Append(@, kernel_mode),
                                      !.modules = @ + 1]
                /\ g_kernel_mode' = kernel_mode
                /\ g_dsa_enable' = TRUE

accel_dsa_enable_probe(kernel_mode) ==
    IF g_dsa_enable
    THEN /\ last' = [op |-> "enable", c |-> 0, t |-> 0, arg |-> kernel_mode,
                     rc |-> -EALREADY]
         /\ env' = [env EXCEPT !.enables = @ + 1]
         /\ UNCHANGED <<g_dsa_enable, g_kernel_mode>>
    ELSE \E rc \in {0} \cup ConfigErrors :
        /\ last' = [op |-> "enable", c |-> 0, t |-> 0, arg |-> kernel_mode, rc |-> rc]
        /\ IF rc # 0
           THEN /\ env' = [env EXCEPT !.enables = @ + 1,
                                      !.set_config = Append(@, kernel_mode)]
                /\ UNCHANGED <<g_dsa_enable, g_kernel_mode>>
           ELSE /\ env' = [env EXCEPT !.enables = @ + 1,
                                      !.set_config = Append(@, kernel_mode),
                                      !.modules = @ + 1]
                /\ g_kernel_mode' = kernel_mode
                /\ g_dsa_enable' = TRUE

\* accel_dsa_init; the probe attaches the devices the driver knows and may
\* report a failure of its own
accel_dsa_init ==
    IF ~g_dsa_enable
    THEN /\ last' = [op |-> "init", c |-> 0, t |-> 0, arg |-> 0, rc |-> -EINVAL]
         /\ env' = [env EXCEPT !.inits = @ + 1]
         /\ UNCHANGED <<g_dsa_devices, g_next_dev, g_num_devices, g_dsa_initialized>>
    ELSE \E R \in spdk_idxd_probe([next |-> g_next_dev, devices |-> g_dsa_devices,
                                   num |-> g_num_devices], 1, Len(idxd.socket)) :
         \E probe_rc \in {0, -EIO} :
            /\ g_dsa_devices' = R.devices
            /\ g_next_dev' = R.next
            /\ g_num_devices' = R.num
            /\ IF probe_rc # 0
               THEN /\ last' = [op |-> "init", c |-> 0, t |-> 0, arg |-> 0, rc |-> -EINVAL]
                    /\ env' = [env EXCEPT !.inits = @ + 1]
                    /\ UNCHANGED g_dsa_initialized
               ELSE IF R.devices = <<>>
               THEN /\ last' = [op |-> "init", c |-> 0, t |-> 0, arg |-> 0, rc |-> -ENODEV]
                    /\ env' = [env EXCEPT !.inits = @ + 1]
                    /\ UNCHANGED g_dsa_initialized
               ELSE /\ last' = [op |-> "init", c |-> 0, t |-> 0, arg |-> 0, rc |-> 0]
                    /\ g_dsa_initialized' = TRUE
                    /\ env' = [env EXCEPT !.inits = @ + 1, !.io_device = TRUE]

\* accel_dsa_exit: every device is taken off the list, detached and freed
accel_dsa_exit ==
    /\ g_dsa_initialized' = FALSE
    /\ env' = [env EXCEPT !.io_device = FALSE, !.fini = TRUE,
                          !.detached = @ \cup { g_dsa_devices[i] : i \in 1..Len(g_dsa_devices) }]
    /\ g_dsa_devices' = <<>>
    /\ UNCHANGED <<g_next_dev, g_num_devices>>
    /\ last' = [op |-> "exit", c |-> 0, t |-> 0, arg |-> 0, rc |-> 0]

\* the module state after accel_dsa_enable_probe and accel_dsa_init succeeded
Initialized ==
    /\ g_dsa_enable = TRUE
    /\ g_kernel_mode = FALSE
    /\ g_dsa_initialized = TRUE
    /\ env = [iommu |-> TRUE, set_config |-> <<g_kernel_mode>>, modules |-> 1,
              io_device |-> TRUE, enables |-> 1, inits |-> 1, fini |-> FALSE,
              detached |-> {}]

\* ----------------------------------------------------------------- actions
Machine(c) ==
    [c |-> c, chans |-> chans, hw |-> hw, tasks |-> tasks, log |-> <<>>, rc |-> 0]

Commit(m, op, t) ==
    /\ chans' = m.chans
    /\ hw' = m.hw
    /\ tasks' = m.tasks
    /\ log' = m.log
    /\ last' = [op |-> op, c |-> m.c, t |-> t]
    /\ UNCHANGED load
    /\ UNCHANGED regvars
    /\ UNCHANGED modvars

\* A caller submits a task on its channel.
Submit(c) ==
    /\ Len(tasks) < load.limit
    /\ \E d \in load.descrs :
          \E m \in dsa_submit_task(NewTask(Machine(c), d), Len(tasks) + 1) :
             Commit(m, "submit", Len(tasks) + 1)

\* One tick of the channel's poller.
Poll(c) ==
    \E m \in idxd_poll(Machine(c)) : Commit(m, "poll", 0)

\* The external fault signal that takes a channel from ACTIVE to ERROR.
MarkFaulted(c) ==
    /\ chans[c].state = IDXD_CHANNEL_ACTIVE
    /\ chans' = [chans EXCEPT ![c].state = IDXD_CHANNEL_ERROR]
    /\ log' = <<>>
    /\ last' = [op |-> "fault", c |-> c, t |-> 0]
    /\ UNCHANGED <<hw, tasks, load>>
    /\ UNCHANGED regvars
    /\ UNCHANGED modvars

\* One device, and on it the channels as dsa_create_cb leaves them.
InitChannels ==
    /\ chans = [c \in Chans |-> dsa_create_cb_fields(ZeroedChannel, 1, 1)]
    /\ hw = [c \in Chans |-> <<>>]
    /\ tasks = <<>>
    /\ log = <<>>
    /\ last = [op |-> "create", c |-> 0, t |-> 0]
    /\ g_dsa_devices = <<1>>
    /\ g_next_dev = 1
    /\ g_num_devices = 1
    /\ idxd = [socket |-> <<0>>, channels |-> <<Cardinality(Chans)>>]
    /\ reqs = <<>>
    /\ sel = <<>>
    /\ Initialized

Init ==
    /\ InitChannels
    /\ load = [descrs |-> SpecDescrs, limit |-> MaxTasks]

Next ==
    \E c \in Chans :
        \/ Submit(c)
        \/ Poll(c)
        \/ MarkFaulted(c)

Spec == Init /\ [][Next]_vars

\* Callers that submit copies and dual-casts of one shape, any shape.
InitDual ==
    /\ InitChannels
    /\ \E sh \in Shapes :
          load = [descrs |-> {Descr("COPY", OneShape), Descr("DUALCAST", sh)},
                  limit |-> DualTasks]

NextDual ==
    \E c \in Chans :
        \/ Submit(c)
        \/ Poll(c)

SpecDual == InitDual /\ [][NextDual]_vars

\* A tick of the poller on which the backlog is retried and the driver does
\* not answer the retry of the head with scarcity.
PollNotScarce(c) ==
    /\ Poll(c)
    /\ \E i \in 1..Len(log') :
          /\ log'[i].k = "drain"
          /\ ~(/\ i + 2 <= Len(log')
                /\ log'[i + 2].k = "drv"
                /\ log'[i + 2].rc = -EBUSY)

InitLive ==
    /\ InitChannels
    /\ load = [descrs |-> SpecDescrs, limit |-> LiveTasks]

\* The poller keeps being run, and the driver does not answer scarcity forever.
SpecLive ==
    /\ InitLive
    /\ [][Next]_vars
    /\ \A c \in Chans : WF_vars(Poll(c)) /\ SF_vars(PollNotScarce(c))

\* Callers that submit copies, dual-casts the dispatcher rejects and an opcode
\* the dispatcher has no case for.
ErrDescrs ==
    { Descr("COPY", OneShape), Descr("ENCRYPT", OneShape),
      Descr("DUALCAST", [OneShape EXCEPT !.d2len = 2]) }

InitErr ==
    /\ InitChannels
    /\ load = [descrs |-> ErrDescrs, limit |-> MaxTasks]

SpecErr == InitErr /\ [][NextDual]_vars

\* The next execution context asks for its channel.
Create ==
    /\ env.io_device
    /\ Len(reqs) < Len(chans)
    /\ \E socket_id \in Sockets : dsa_create_cb(Len(reqs) + 1, socket_id)
    /\ last' = [op |-> "create", c |-> Len(reqs) + 1, t |-> 0, arg |-> 0,
                 rc |-> reqs'[Len(reqs) + 1].rc]
    /\ UNCHANGED <<hw, tasks, log, load, sel>>
    /\ UNCHANGED modvars

\* The registry after a successful accel_dsa_init: the probe found up to
\* MaxDevs devices, each on some socket, and the list is not empty; no channel
\* exists yet.
InitSel ==
    /\ \E n \in 1..MaxDevs :
        \E R \in spdk_idxd_probe([next |-> 0, devices |-> <<>>, num |-> 0], 1, n) :
          /\ R.devices # <<>>
          /\ g_dsa_devices = R.devices
          /\ g_next_dev = R.next
          /\ g_num_devices = R.num
          /\ \E sk \in [1..n -> Sockets] :
                idxd = [socket |-> sk, channels |-> [d \in 1..n |-> 0]]
    /\ chans = [ctx \in 1..MaxCtx |-> ZeroedChannel]
    /\ reqs = <<>>
    /\ sel = <<>>
    /\ Initialized
    /\ hw = <<>>
    /\ tasks = <<>>
    /\ log = <<>>
    /\ last = [op |-> "init", c |-> 0, t |-> 0]
    /\ load = [descrs |-> {}, limit |-> 0]

NextSel == Create

SpecSel == InitSel /\ [][NextSel]_vars

\* ------------------------------------------------------------- life cycle
\* the RPC that enables the module
EnableProbe ==
    /\ env.enables < MaxEnable
    /\ \E kernel_mode \in BOOLEAN : accel_dsa_enable_probe(kernel_mode)
    /\ UNCHANGED <<chans, hw, tasks, log, load, g_dsa_initialized>>
    /\ UNCHANGED regvars

\* the framework initializes the module, once
ModuleInit ==
    /\ env.inits = 0
    /\ accel_dsa_init
    /\ UNCHANGED <<chans, hw, tasks, log, load, idxd, reqs, sel, g_dsa_enable, g_kernel_mode>>

\* the framework asks whether an opcode is supported
Query ==
    /\ \E opc \in Opcodes :
          last' = [op |-> "query", c |-> 0, t |-> 0, arg |-> opc, rc |-> 0,
                   supported |-> dsa_supports_opcode(opc)]
    /\ UNCHANGED <<chans, hw, tasks, log, load>>
    /\ UNCHANGED regvars
    /\ UNCHANGED modvars

\* mutant: the slot is not given back to the driver
dsa_destroy_cb_NoPut(ctx) ==
    /\ chans' = [chans EXCEPT ![ctx].poller = FALSE]
    /\ UNCHANGED idxd

\* dsa_destroy_cb: spdk_poller_unregister and spdk_idxd_put_channel
dsa_destroy_cb(ctx) ==
    /\ chans' = [chans EXCEPT ![ctx].poller = FALSE]
    /\ idxd' = [idxd EXCEPT !.channels[chans[ctx].chan] = @ - 1]

\* the last reference to a context's channel is dropped
Destroy ==
    /\ \E ctx \in DOMAIN chans :
          /\ chans[ctx].poller
          /\ dsa_destroy_cb(ctx)
          /\ last' = [op |-> "destroy", c |-> ctx, t |-> 0, arg |-> 0, rc |-> 0]
    /\ UNCHANGED <<hw, tasks, log, load, g_dsa_devices, g_next_dev, g_num_devices, reqs, sel>>
    /\ UNCHANGED modvars

\* the framework finishes the module at shutdown, after every channel is gone
ModuleExit ==
    /\ env.inits = 1 /\ ~env.fini
    /\ \A ctx \in DOMAIN chans : ~chans[ctx].poller
    /\ accel_dsa_exit
    /\ UNCHANGED <<chans, hw, tasks, log, load, idxd, reqs, sel, g_dsa_enable, g_kernel_mode>>

\* Before anything ran: the driver knows up to MaxDevs devices.
InitLife ==
    /\ g_dsa_enable = FALSE
    /\ g_kernel_mode = FALSE
    /\ g_dsa_initialized = FALSE
    /\ g_dsa_devices = <<>>
    /\ g_next_dev = 0
    /\ g_num_devices = 0
    /\ \E n \in 0..MaxDevs : \E sk \in [1..n -> Sockets] :
          idxd = [socket |-> sk, channels |-> [d \in 1..n |-> 0]]
    /\ \E b \in BOOLEAN :
          env = [iommu |-> b, set_config |-> <<>>, modules |-> 0, io_device |-> FALSE,
                 enables |-> 0, inits |-> 0, fini |-> FALSE, detached |-> {}]
    /\ chans = [ctx \in 1..LifeCtx |-> ZeroedChannel]
    /\ reqs = <<>>
    /\ sel = <<>>
    /\ hw = <<>>
    /\ tasks = <<>>
    /\ log = <<>>
    /\ last = [op |-> "start", c |-> 0, t |-> 0, arg |-> 0, rc |-> 0]
    /\ load = [descrs |-> {}, limit |-> 0]

NextLife ==
    \/ EnableProbe
    \/ ModuleInit
    \/ Create
    \/ Destroy
    \/ ModuleExit

SpecLife == InitLife /\ [][NextLife]_vars

\* The module's life with the framework's capability queries, no channels.
NextCap ==
    \/ EnableProbe
    \/ ModuleInit
    \/ Query
    \/ ModuleExit

SpecCap == InitLife /\ [][NextCap]_vars

\* --------------------------------------------------- channel teardown
\* Tasks are submitted and the poller ticks only while the channel exists;
\* the framework may drop the last reference to the channel at any time.
SubmitLive(c) == chans[c].poller /\ Submit(c)

PollLive(c) == chans[c].poller /\ Poll(c)

FaultLive(c) == chans[c].poller /\ MarkFaulted(c)

NextTear ==
    \/ \E c \in Chans : SubmitLive(c)
    \/ \E c \in Chans : PollLive(c)
    \/ \E c \in Chans : FaultLive(c)
    \/ Destroy

SpecTear == Init /\ [][NextTear]_vars

\* ------------------------------------------------- concurrent creation
\* Threads that ask for their channel at the same time. Thread th owns the
\* context buffer th. One step of a thread is one critical section of
\* idxd_select_device, or the code between two critical sections.
Threads == 1..NThr

\* no call of idxd_select_device was made yet
NoCall ==
    [pc |-> "idle", socket_id |-> 0, count |-> 0, dev |-> 0, rc |-> 0,
     calls |-> 0, avail |-> {}]

\* the devices of socket sk on which the driver has a free slot
FreeOn(channels, sk) ==
    { d \in DOMAIN channels : idxd.socket[d] = sk /\ channels[d] < ChanCap }

\* The devices that have had a free slot since the call of each thread began.
StillFree(S, channels) ==
    [u \in DOMAIN S |->
        IF S[u].pc = "idle"
        THEN S[u]
        ELSE [S[u] EXCEPT !.avail = { d \in @ : channels[d] < ChanCap }]]

RECURSIVE TotalCalls(_)
\* the calls of dsa_create_cb the threads 1..n made
TotalCalls(n) == IF n = 0 THEN 0 ELSE TotalCalls(n - 1) + sel[n].calls

\* dsa_create_cb is entered on a zeroed context buffer; count = 0
SelectEnter(th) ==
    /\ env.io_device
    /\ sel[th].pc = "idle"
    /\ ~chans[th].poller
    /\ TotalCalls(NThr) < MaxCalls
    /\ \E socket_id \in Sockets :
          sel' = [sel EXCEPT ![th] =
                     [pc |-> "lock", socket_id |-> socket_id, count |-> 0,
                      dev |-> 0, rc |-> 0, calls |-> @.calls + 1,
                      avail |-> FreeOn(idxd.channels, socket_id)]]
    /\ chans' = [chans EXCEPT ![th] = ZeroedChannel]
    /\ last' = [op |-> "enter", c |-> th, t |-> 0, arg |-> 0, rc |-> 0]
    /\ UNCHANGED <<hw, tasks, log, load, g_dsa_devices, g_next_dev, g_num_devices,
                   idxd, reqs>>
    /\ UNCHANGED modvars

\* the critical section: the cursor moves on and the thread takes its value
SelectAdvance(th) ==
    /\ sel[th].pc = "lock"
    /\ LET n1 == TAILQ_NEXT(g_dsa_devices, g_next_dev)
           dev == IF n1 = 0 THEN TAILQ_FIRST(g_dsa_devices) ELSE n1
       IN /\ g_next_dev' = dev
          /\ sel' = [sel EXCEPT ![th].pc = "check", ![th].dev = dev]
    /\ last' = [op |-> "advance", c |-> th, t |-> 0, arg |-> 0, rc |-> 0]
    /\ UNCHANGED <<chans, hw, tasks, log, load, g_dsa_devices, g_num_devices,
                   idxd, reqs>>
    /\ UNCHANGED modvars

\* } while (++count < g_num_devices); and the failure return of dsa_create_cb
SelectAgain(S, th) ==
    IF S[th].count + 1 < g_num_devices
    THEN [S EXCEPT ![th].pc = "lock", ![th].count = @ + 1]
    ELSE [S EXCEPT ![th].pc = "idle", ![th].count = @ + 1, ![th].dev = 0,
                   ![th].rc = -EINVAL]

\* outside the critical section: the socket of the device is compared and a
\* slot is asked of the driver; with a slot dsa_create_cb fills the context
SelectTry(th) ==
    /\ sel[th].pc = "check"
    /\ LET dev == sel[th].dev IN
       IF sel[th].socket_id # idxd.socket[dev]
       THEN /\ sel' = SelectAgain(sel, th)
            /\ UNCHANGED <<chans, idxd>>
       ELSE IF spdk_idxd_get_channel(idxd.channels, dev)
       THEN /\ idxd' = [idxd EXCEPT !.channels[dev] = @ + 1]
            /\ chans' = [chans EXCEPT ![th] = dsa_create_cb_fields(@, dev, dev)]
            /\ sel' = StillFree([sel EXCEPT ![th].pc = "idle", ![th].rc = 0],
                                idxd'.channels)
       ELSE /\ chans' = [chans EXCEPT ![th].chan = 0]
            /\ sel' = SelectAgain(sel, th)
            /\ UNCHANGED idxd
    /\ last' = [op |-> "try", c |-> th, t |-> 0, arg |-> 0, rc |-> sel'[th].rc]
    /\ UNCHANGED <<hw, tasks, log, load, g_dsa_devices, g_next_dev, g_num_devices, reqs>>
    /\ UNCHANGED modvars

\* The registry after a successful accel_dsa_init, and no thread has a channel.
InitConc ==
    /\ \E n \in 1..MaxDevs :
          /\ g_dsa_devices = [d \in 1..n |-> d]
          /\ g_next_dev = 1
          /\ g_num_devices = n
          /\ \E sk \in [1..n -> Sockets] :
                idxd = [socket |-> sk, channels |-> [d \in 1..n |-> 0]]
    /\ chans = [th \in Threads |-> ZeroedChannel]
    /\ sel = [th \in Threads |-> NoCall]
    /\ reqs = <<>>
    /\ Initialized
    /\ hw = <<>>
    /\ tasks = <<>>
    /\ log = <<>>
    /\ last = [op |-> "init", c |-> 0, t |-> 0, arg |-> 0, rc |-> 0]
    /\ load = [descrs |-> {}, limit |-> 0]

NextConc ==
    \/ \E th \in Threads : SelectEnter(th)
    \/ \E th \in Threads : SelectAdvance(th)
    \/ \E th \in Threads : SelectTry(th)
    \/ Destroy

SpecConc == InitConc /\ [][NextConc]_vars

\* ================================================================== claims
Ids == 1..Len(tasks)
LogIdx == 1..Len(log)
InFifo(c, t) == InSeq(t, chans[c].queued_tasks)
InHw(c, t) == InSeq(t, hw[c])

RECURSIVE SumAcc(_, _)
\* driver acceptances over the tasks 1..n whose idxd_task->chan is c
SumAcc(c, n) ==
    IF n = 0 THEN 0
    ELSE SumAcc(c, n - 1) + (IF tasks[n].chan = c THEN tasks[n].acc ELSE 0)

RECURSIVE SumDones(_, _)
\* completion-handler invocations over the tasks 1..n whose idxd_task->chan is c
SumDones(c, n) ==
    IF n = 0 THEN 0
    ELSE SumDones(c, n - 1) + (IF tasks[n].chan = c THEN tasks[n].dones ELSE 0)

Accepted(c) == SumAcc(c, Len(tasks))
Handled(c) == SumDones(c, Len(tasks))

\* the position of the drain marker in the record of a poll, 0 if it did not drain
DrainAt == IF \E i \in LogIdx : log[i].k = "drain"
           THEN CHOOSE i \in LogIdx : log[i].k = "drain"
           ELSE 0

\* number of events of kind k for task t at positions lo..hi of the record
CountEv(k, t, lo, hi) == Cardinality({ i \in lo..hi : log[i].k = k /\ log[i].t = t })

\* C1: on every channel the outstanding counter equals the dispatches the
\* driver accepted minus the completion-handler invocations, it is never
\* negative, and the completion handler is never entered with it at zero.
C1_OutstandingCount ==
    /\ \A c \in Chans :
          /\ chans[c].num_outstanding = Accepted(c) - Handled(c)
          /\ chans[c].num_outstanding >= 0
    /\ \A i \in LogIdx : log[i].k = "done" => log[i].out > 0

\* a poll handled a completion while other operations stayed outstanding
C1_Witness ==
    /\ last.op = "poll"
    /\ \E i \in LogIdx : log[i].k = "done"
    /\ chans[last.c].num_outstanding >= 1
    /\ Handled(last.c) >= 1

\* C2: on an ACTIVE channel tasks are attempted for dispatch in arrival order:
\* whenever a task is tried or offered to the driver no earlier-submitted task
\* waits in the FIFO, no task is accepted twice, and every submitted task is
\* in the FIFO, accepted by the driver, or has had its continuation invoked.
C2_FifoOrder ==
    \A c \in Chans : chans[c].state = IDXD_CHANNEL_ACTIVE =>
        /\ \A i \in LogIdx : log[i].k \in {"try", "drv"} =>
              \A j \in 1..Len(log[i].q) : log[i].q[j] >= log[i].t
        /\ \A t \in Ids : tasks[t].acc <= 1
        /\ \A t \in Ids : InFifo(c, t) \/ tasks[t].acc >= 1 \/ tasks[t].cbs >= 1

\* a drain tried two queued tasks, the first with another one behind it
C2_Witness ==
    /\ last.op = "poll"
    /\ chans[last.c].state = IDXD_CHANNEL_ACTIVE
    /\ \E i, j \in LogIdx :
          /\ DrainAt # 0 /\ DrainAt < i /\ i < j
          /\ log[i].k = "try" /\ log[j].k = "try"
          /\ log[i].t < log[j].t
          /\ Len(log[i].q) >= 2

\* C3: on a channel in ERROR a submit completes the new task with -EINVAL and
\* does not enqueue it, a drain removes every queued task and completes it
\* with -EINVAL leaving the FIFO empty, and neither makes a driver call nor
\* changes the outstanding counter.
C3_ErrorState ==
    \A c \in Chans : (chans[c].state = IDXD_CHANNEL_ERROR /\ last.c = c) =>
        /\ last.op = "submit" =>
              /\ log # <<>>
              /\ log[1].t = last.t
              /\ \A i \in LogIdx :
                    /\ log[i].k = "cb" /\ log[i].rc = -EINVAL
                    /\ log[i].q = chans[c].queued_tasks
                    /\ log[i].out = chans[c].num_outstanding
                    /\ ~InFifo(c, log[i].t)
        /\ (last.op = "poll" /\ DrainAt # 0) =>
              /\ \A i \in (DrainAt + 1)..Len(log) :
                    /\ log[i].k = "cb" /\ log[i].rc = -EINVAL
                    /\ log[i].out = log[DrainAt].out
              /\ \A j \in 1..Len(log[DrainAt].q) :
                    CountEv("cb", log[DrainAt].q[j], DrainAt + 1, Len(log)) = 1
              /\ chans[c].queued_tasks = <<>>
              /\ chans[c].num_outstanding = log[DrainAt].out

\* a drain in ERROR found two queued tasks
C3_Witness ==
    /\ last.op = "poll"
    /\ chans[last.c].state = IDXD_CHANNEL_ERROR
    /\ DrainAt # 0
    /\ Len(log[DrainAt].q) >= 2

\* C4: a drain on an ACTIVE channel stops at the first queued entry the driver
\* reports scarce: nothing happens after that answer, the entry and all behind
\* it stay queued in their order (the entries of the FIFO the drain started
\* with that are left are its tail and lead the FIFO), and the counter went up
\* by exactly one per entry accepted before it.
C4_DrainStopsOnScarcity ==
    \A c \in Chans : (chans[c].state = IDXD_CHANNEL_ACTIVE /\ last.c = c
                      /\ last.op = "poll" /\ DrainAt # 0) =>
        \A i \in (DrainAt + 1)..Len(log) :
            (log[i].k = "drv" /\ log[i].rc = -EBUSY /\ InSeq(log[i].t, log[i].q)) =>
                /\ i = Len(log)
                /\ chans[c].queued_tasks = log[i].q
                /\ Head(chans[c].queued_tasks) = log[i].t
                /\ LET q0 == log[DrainAt].q
                       kept == SelectSeq(q0, LAMBDA x : InFifo(c, x))
                   IN /\ \E n \in 1..(Len(q0) + 1) : kept = SubSeq(q0, n, Len(q0))
                      /\ kept = SubSeq(chans[c].queued_tasks, 1, Len(kept))
                /\ chans[c].num_outstanding = log[DrainAt].out +
                      Cardinality({ j \in DrainAt..i : log[j].k = "drv" /\ log[j].rc = 0 })

\* a drain accepted the head, met scarcity at the second entry and left a third behind
C4_Witness ==
    /\ last.op = "poll"
    /\ chans[last.c].state = IDXD_CHANNEL_ACTIVE
    /\ DrainAt # 0
    /\ Len(log[DrainAt].q) >= 3
    /\ Len(chans[last.c].queued_tasks) = Len(log[DrainAt].q) - 1
    /\ log[Len(log)].k = "drv" /\ log[Len(log)].rc = -EBUSY
    /\ chans[last.c].num_outstanding = log[DrainAt].out + 1

\* C7: a continuation runs at most once per task and only when the task is in
\* no FIFO and not held by the driver; an accepted task is completed only by
\* the completion handler; a task failed by submit or drain was never accepted
\* and is not left queued.
C7_CompleteOnce ==
    /\ \A t \in Ids :
          /\ tasks[t].cbs <= 1
          /\ tasks[t].cbs = 1 => \A c \in Chans : ~InFifo(c, t) /\ ~InHw(c, t)
          /\ tasks[t].acc >= 1 => tasks[t].cbs = tasks[t].dones
          /\ (tasks[t].cbs = 1 /\ tasks[t].dones = 0) => tasks[t].acc = 0
    /\ \A i \in LogIdx : log[i].k = "cb" =>
          /\ ~InSeq(log[i].t, log[i].q)
          /\ ~log[i].inhw

\* one task was completed by the completion handler and another failed by a drain
C7_Witness ==
    /\ \E t \in Ids : tasks[t].cbs = 1 /\ tasks[t].dones = 1
    /\ last.op = "poll" /\ DrainAt # 0
    /\ \E i \in (DrainAt + 1)..Len(log) : log[i].k = "cb"

\* C8: scarcity is never handed to a continuation: after a driver call answers
\* -EBUSY the task is in the FIFO (appended by submit, left at the head by
\* drain) with the counter unchanged, and no continuation gets -EBUSY.
C8_ScarcityQueued ==
    /\ \A i \in LogIdx : log[i].k = "cb" => log[i].rc # -EBUSY
    /\ \A i \in LogIdx : (log[i].k = "drv" /\ log[i].rc = -EBUSY) =>
          IF InSeq(log[i].t, log[i].q)
          THEN /\ i = Len(log)
               /\ chans[last.c].queued_tasks = log[i].q
               /\ Head(log[i].q) = log[i].t
               /\ chans[last.c].num_outstanding = log[i].out
          ELSE /\ i < Len(log)
               /\ log[i + 1].k = "enq"
               /\ log[i + 1].t = log[i].t
               /\ log[i + 1].q = Append(log[i].q, log[i].t)
               /\ log[i + 1].out = log[i].out

\* a submit met scarcity and queued the task
C8_Witness ==
    /\ last.op = "submit"
    /\ \E i \in LogIdx : log[i].k = "drv" /\ log[i].rc = -EBUSY /\ log[i].t = last.t
    /\ InFifo(last.c, last.t)

\* C9: the completion handler runs the software verification exactly once and
\* before the continuation when a DIF_VERIFY task completes with -EIO, never
\* otherwise; the continuation gets the status the hardware reported, after
\* the counter was decremented.
C9_DoneVerify ==
    /\ \A i \in LogIdx : log[i].k = "done" =>
          LET v == IF log[i].op = "DIF_VERIFY" /\ log[i].rc = -EIO THEN 1 ELSE 0
          IN /\ i + v + 1 <= Len(log)
             /\ v = 1 => log[i + 1].k = "verify" /\ log[i + 1].t = log[i].t
             /\ log[i + v + 1].k = "cb"
             /\ log[i + v + 1].t = log[i].t
             /\ log[i + v + 1].rc = log[i].rc
             /\ log[i + v + 1].out = log[i].out - 1
             /\ CountEv("verify", log[i].t, 1, Len(log)) = v
    /\ \A i \in LogIdx : log[i].k = "verify" => i > 1 /\ log[i - 1].k = "done"

\* a DIF_VERIFY task completed with -EIO and was verified in software
C9_Witness ==
    \E i \in LogIdx : log[i].k = "verify" /\ log[i].op = "DIF_VERIFY" /\ log[i].rc = -EIO

\* the shape the dispatcher lets through to the driver
ValidDual(sh) ==
    /\ sh.d = 1 /\ sh.d2 = 1 /\ sh.s = 1
    /\ sh.dlen = sh.slen /\ sh.dlen = sh.d2len

\* C10 (as amended): a dual-cast task reaches the driver only if source,
\* destination and secondary destination have one region each, all of one
\* length; a dispatch attempt of any other shape ends at once in the
\* continuation with -EINVAL, without a driver call, with the task outside the
\* FIFO and the counter unchanged; such a task is enqueued only behind a
\* backlog, by a submit that does not attempt dispatch.
C10_DualcastValidation ==
    /\ \A i \in LogIdx : (log[i].k = "drv" /\ log[i].op = "DUALCAST") =>
          ValidDual(log[i].shape)
    /\ \A i \in LogIdx :
          (log[i].k = "try" /\ log[i].op = "DUALCAST" /\ ~ValidDual(log[i].shape)) =>
             /\ i < Len(log)
             /\ log[i + 1].k = "cb"
             /\ log[i + 1].t = log[i].t
             /\ log[i + 1].rc = -EINVAL
             /\ log[i + 1].out = log[i].out
             /\ ~InSeq(log[i].t, log[i + 1].q)
             /\ tasks[log[i].t].acc = 0
    /\ \A i \in LogIdx :
          (log[i].k = "enq" /\ log[i].op = "DUALCAST" /\ ~ValidDual(log[i].shape)) =>
             /\ Len(log[i].q) >= 2
             /\ i > 1 => log[i - 1].t # log[i].t

\* a drain rejected a queued dual-cast whose regions are single but differ in length
C10_Witness ==
    /\ last.op = "poll" /\ DrainAt # 0
    /\ \E i \in (DrainAt + 1)..(Len(log) - 1) :
          /\ log[i].k = "try" /\ log[i].op = "DUALCAST"
          /\ log[i].shape.d = 1 /\ log[i].shape.d2 = 1 /\ log[i].shape.s = 1
          /\ log[i].shape.dlen # log[i].shape.d2len
          /\ log[i + 1].k = "cb" /\ log[i + 1].rc = -EINVAL

\* C10 (as stated): a dual-cast task of another shape is rejected with
\* -EINVAL, never reaches the driver, is never enqueued and leaves the counter
\* unchanged.
C10_Original ==
    /\ C10_DualcastValidation
    /\ \A c \in Chans : \A t \in Ids :
          (InFifo(c, t) /\ tasks[t].op_code = "DUALCAST") => ValidDual(tasks[t].shape)

\* C14: a submit on an ACTIVE channel whose FIFO is not empty appends the
\* task at the tail and does nothing else: no driver call, no continuation,
\* the counter, the driver's queue and the existing entries as they were.
C14_SubmitBehindBacklog ==
    [][\A c \in Chans :
         (/\ last'.op = "submit" /\ last'.c = c
          /\ Len(tasks') = Len(tasks) + 1
          /\ chans[c].state = IDXD_CHANNEL_ACTIVE
          /\ chans[c].queued_tasks # <<>>) =>
            /\ last'.t = Len(tasks')
            /\ chans'[c].queued_tasks = Append(chans[c].queued_tasks, last'.t)
            /\ chans'[c].num_outstanding = chans[c].num_outstanding
            /\ chans'[c].state = chans[c].state
            /\ hw' = hw
            /\ \A t \in 1..Len(tasks) : tasks'[t] = tasks[t]
            /\ tasks'[last'.t].acc = 0 /\ tasks'[last'.t].cbs = 0
            /\ Len(log') = 1 /\ log'[1].k = "enq" /\ log'[1].t = last'.t
      ]_vars

\* a submit found two tasks waiting and queued behind them
C14_Witness ==
    /\ last.op = "submit"
    /\ chans[last.c].state = IDXD_CHANNEL_ACTIVE
    /\ Len(log) = 1 /\ log[1].k = "enq"
    /\ Len(chans[last.c].queued_tasks) = 3
    /\ chans[last.c].queued_tasks[3] = last.t

\* the dispatch attempt that starts at position i of the record ended in an
\* error other than scarcity: the driver answered one, or the dispatcher
\* rejected the task without asking the driver
DispatchError(i) ==
    /\ log[i].k = "try"
    /\ i < Len(log)
    /\ \/ log[i + 1].k = "drv" /\ log[i + 1].t = log[i].t
          /\ log[i + 1].rc \notin {0, -EBUSY}
       \/ log[i + 1].k = "cb" /\ log[i + 1].t = log[i].t

\* the position of the continuation of the attempt at i, and the error
CbAt(i) == IF log[i + 1].k = "drv" THEN i + 2 ELSE i + 1
ErrorOf(i) == IF log[i + 1].k = "drv" THEN log[i + 1].rc ELSE -EINVAL

C16_BacklogLiveness ==
    /\ \A c \in Chans : \A t \in 1..LiveTasks :
          InFifo(c, t) ~> (/\ t \in Ids
                           /\ ~InFifo(c, t)
                           /\ (tasks[t].acc >= 1 \/ tasks[t].cbs >= 1))
    /\ [][\A c \in Chans :
            (last'.op = "poll" /\ last'.c = c /\ chans[c].queued_tasks # <<>>) =>
               \E i \in 1..Len(log') :
                   /\ log'[i].k = "drain"
                   /\ log'[i].q # <<>>
                   /\ i < Len(log')
         ]_vars

\* a tick with nothing outstanding and no completion to process emptied the FIFO
C16_Witness ==
    /\ last.op = "poll"
    /\ chans[last.c].state = IDXD_CHANNEL_ACTIVE
    /\ \A i \in LogIdx : log[i].k # "done"
    /\ DrainAt # 0
    /\ log[DrainAt].out = 0
    /\ Len(log[DrainAt].q) >= 1
    /\ chans[last.c].queued_tasks = <<>>
    /\ \E t \in Ids : tasks[t].acc = 1 /\ InSeq(t, log[DrainAt].q)

\* -------------------------------------------------------------- selection
Devs == { g_dsa_devices[i] : i \in 1..Len(g_dsa_devices) }
ReqIdx == 1..Len(reqs)
OnSocket(sk) == { d \in Devs : idxd.socket[d] = sk }
\* live channels bound to device d
Bound(d) == { ctx \in DOMAIN chans : chans[ctx].poller /\ chans[ctx].dev = d }

\* C5: a selection never returns a device of another locality domain and never
\* takes a slot on one; it ends within (device count) cursor advances, and it
\* fails only after that many advances, none of which met an on-domain device
\* with a free slot.
C5_Locality ==
    /\ \A i \in ReqIdx :
          LET r == reqs[i] IN
          /\ Len(r.scanned) >= 1 /\ Len(r.scanned) <= g_num_devices
          /\ r.dev # 0 =>
                /\ idxd.socket[r.dev] = r.socket_id
                /\ r.scanned[Len(r.scanned)] = r.dev
                /\ chans[i].dev = r.dev /\ chans[i].chan = r.dev
          /\ r.dev = 0 =>
                /\ Len(r.scanned) = g_num_devices
                /\ \A j \in 1..Len(r.scanned) :
                      \/ idxd.socket[r.scanned[j]] # r.socket_id
                      \/ idxd.channels[r.scanned[j]] = ChanCap
    /\ \A d \in DOMAIN idxd.channels :
          /\ idxd.channels[d] = Cardinality(Bound(d))
          /\ \A ctx \in Bound(d) : reqs[ctx].socket_id = idxd.socket[d]

\* a selection skipped an off-domain device and took a slot, another one failed
C5_Witness ==
    /\ \E i \in ReqIdx :
          /\ reqs[i].dev # 0 /\ Len(reqs[i].scanned) >= 2
          /\ idxd.socket[reqs[i].scanned[1]] # reqs[i].socket_id
    /\ \E i \in ReqIdx :
          /\ reqs[i].dev = 0
          /\ \E j \in 1..Len(reqs[i].scanned) :
                idxd.socket[reqs[i].scanned[j]] = reqs[i].socket_id

\* requests from socket sk among the first n
FromSocket(sk, n) == { i \in 1..n : reqs[i].socket_id = sk }

\* C6: with creations one after the other and no destroys, of the requests
\* from a domain with k devices capped at c channels the first k*c succeed and
\* every later one fails, leaving no poller registered.
C6_Capacity ==
    \A i \in ReqIdx :
        LET sk == reqs[i].socket_id
            before == Cardinality(FromSocket(sk, i - 1))
            room == Cardinality(OnSocket(sk)) * ChanCap
        IN IF before < room
           THEN reqs[i].rc = 0 /\ reqs[i].dev # 0 /\ chans[i].poller
           ELSE reqs[i].rc = -EINVAL /\ reqs[i].dev = 0 /\ ~chans[i].poller

\* two devices of one domain: four creations succeeded and the fifth failed
C6_Witness ==
    \E sk \in Sockets :
        /\ Cardinality(OnSocket(sk)) = 2
        /\ Cardinality({ i \in ReqIdx : reqs[i].socket_id = sk /\ reqs[i].rc = 0 }) = 2 * ChanCap
        /\ \E i \in ReqIdx : reqs[i].socket_id = sk /\ reqs[i].rc # 0

\* ------------------------------------------------------------- life cycle
\* C11: in every state of the registry, through discovery, selections and
\* teardown, the selection cursor is null or references a device that is a
\* member of the device list.
C11_CursorValid ==
    g_next_dev = 0 \/ g_next_dev \in Devs

AlwaysSupported == {"COPY", "FILL", "DUALCAST", "COMPARE", "CRC32C", "COPY_CRC32C"}
IommuSupported == {"DIF_VERIFY", "DIF_GENERATE_COPY"}

\* C12: once the module is initialized the capability query answers true for
\* copy, fill, dual-cast, compare, checksum and checksum-with-copy whatever
\* the platform state, for DIF verify and DIF generate-with-copy exactly when
\* the IOMMU is enabled, and false for every other opcode.
C12_CapabilityQuery ==
    (last.op = "query" /\ g_dsa_initialized) =>
        /\ last.arg \in AlwaysSupported => last.supported
        /\ last.arg \in IommuSupported => (last.supported <=> env.iommu)
        /\ last.arg \notin (AlwaysSupported \cup IommuSupported) => ~last.supported

\* DIF verify was asked for with the IOMMU off, and refused
C12_Witness ==
    /\ last.op = "query" /\ g_dsa_initialized
    /\ last.arg = "DIF_VERIFY" /\ ~env.iommu /\ ~last.supported

\* what an enable attempt must leave alone to have no effect
EnableNoEffect ==
    /\ last'.rc = -EALREADY
    /\ env'.set_config = env.set_config
    /\ env'.modules = env.modules
    /\ g_dsa_enable' = g_dsa_enable
    /\ g_kernel_mode' = g_kernel_mode

\* C13 (as amended): an attempt to enable the module while it is enabled fails
\* with -EALREADY and has no effect: no set_config call, no second
\* registration, the enabled flag and the recorded mode unchanged, whatever
\* mode it asks for. (An attempt that follows only refused ones is handled
\* like a first one.)
C13_SecondEnable ==
    [][(env'.enables = env.enables + 1 /\ g_dsa_enable) => EnableNoEffect]_vars

\* an attempt asked for the other mode and was refused as already enabled
C13_Witness ==
    /\ last.op = "enable" /\ last.rc = -EALREADY
    /\ last.arg # g_kernel_mode
    /\ g_dsa_enable /\ env.modules = 1 /\ Len(env.set_config) = 1

\* C13 (as stated): every attempt to enable after the first one fails with
\* -EALREADY and has no effect.
C13_Original ==
    [][(env'.enables = env.enables + 1 /\ env.enables >= 1) => EnableNoEffect]_vars

\* C18: on a channel in ERROR tasks are failed in arrival order: while a task
\* waits in the channel's FIFO, no task submitted after it (so none submitted
\* after the channel entered ERROR) has had its continuation invoked.
C18_ErrorOrder ==
    \A c \in Chans : chans[c].state = IDXD_CHANNEL_ERROR =>
        \A t \in Ids : \A u \in Ids :
            (InFifo(c, t) /\ u > t) => tasks[u].cbs = 0

\* C19: destroying a channel never strands a task: once the channel's poller
\* is unregistered, every task in the channel's FIFO has had its continuation
\* invoked.
C19_NoStrandedTask ==
    \A c \in Chans : ~chans[c].poller =>
        \A t \in Ids : InFifo(c, t) => tasks[t].cbs >= 1

\* --------------------------------------------------- concurrent creation
\* the threads whose last call of dsa_create_cb returned -EINVAL
Refused == { th \in DOMAIN sel : sel[th].pc = "idle" /\ sel[th].rc = -EINVAL }

\* C17: under any interleaving of concurrent creations a selection fails only
\* if every device of the caller's socket is at its cap: no caller is refused
\* while a device of its socket has had a free slot throughout the call.
C17_NoFalseRefusal ==
    \A th \in Refused : sel[th].avail = {}

\* the live channels bound to device d
LiveOn(d) == { th \in DOMAIN chans : chans[th].poller /\ chans[th].dev = d }

\* C20: through concurrent creations and destructions the slots held on each
\* device equal the live channels bound to it and never exceed the cap; a
\* failed creation holds no slot; each destruction releases exactly the one
\* slot of its channel; when no channel is live every slot is free.
C20_SlotAccounting ==
    /\ [](/\ \A d \in DOMAIN idxd.channels :
                /\ idxd.channels[d] = Cardinality(LiveOn(d))
                /\ idxd.channels[d] <= ChanCap
          /\ \A th \in Refused : chans[th].chan = 0 /\ ~chans[th].poller
          /\ (\A th \in DOMAIN chans : ~chans[th].poller) =>
                \A d \in DOMAIN idxd.channels : idxd.channels[d] = 0)
    /\ [][last'.op = "destroy" =>
             idxd'.channels = [idxd.channels EXCEPT ![chans[last'.c].chan] = @ - 1]]_vars

\* two threads share a device, a third was refused on it, and both channels
\* have been destroyed again
C20_Witness ==
    /\ last.op = "destroy"
    /\ \A th \in DOMAIN chans : ~chans[th].poller
    /\ \E th \in Refused : idxd.socket[chans[last.c].dev] = sel[th].socket_id
    /\ Cardinality({ th \in DOMAIN sel : sel[th].rc = 0 /\ sel[th].calls = 1
                                         /\ chans[th].dev = chans[last.c].dev }) = ChanCap

====
